---- MODULE Spec2Model ----
(***************************************************************************)
(* Model of the markdown table formatter (src/index.ts).                   *)
(*                                                                         *)
(* A string is a sequence of characters, a character is written as a       *)
(* TLA+ string.  The box-drawing glyphs have no ASCII spelling and are     *)
(* written as named characters: VT is the vertical bar U+2502, HZ the      *)
(* horizontal bar U+2500, TL TR TT BL BR BT ML MR MC the corners, tees and *)
(* the cross; CJK is a wide (two-column) glyph; BQ is the backquote U+0060;*)
(* "\n" is the newline.                                                    *)
(* Array indices are 1-based here and 0-based in the source.               *)
(***************************************************************************)
EXTENDS Integers, Sequences, FiniteSets, TLC

VARIABLES
    text,                 \* output.text, the hook's in/out field
    pc,                   \* position of the hook / formatMarkdownTables
    lines,                \* formatMarkdownTables: lines
    result,               \* formatMarkdownTables: result
    i,                    \* formatMarkdownTables: i (1-based)
    insideCodeFence,      \* formatMarkdownTables: insideCodeFence
    widthCache,           \* module-level widthCache (text -> width)
    cacheOperationCount,  \* module-level cacheOperationCount
    wpc,                  \* position of a getStringWidth call under study
    wtext,                \* getStringWidth: text
    codeBlocks,           \* getStringWidth: codeBlocks
    visualText,           \* getStringWidth: visualText
    previousText,         \* getStringWidth: previousText
    width                 \* getStringWidth: returned width (-1 before return)

vars == <<text, pc, lines, result, i, insideCodeFence, widthCache,
          cacheOperationCount, wpc, wtext, codeBlocks, visualText, previousText, width>>

scanVars == <<text, pc, lines, result, i, insideCodeFence, widthCache,
              cacheOperationCount>>

widthVars == <<wpc, wtext, codeBlocks, visualText, previousText, width>>

----------------------------------------------------------------------------
(* Bounds of the model *)

MaxLines == 3

MaxTextLen == 5

----------------------------------------------------------------------------
(* Characters and generic string operations (JavaScript String methods) *)

BOX ==
    [topLeft |-> "TL", topRight |-> "TR", topTee |-> "TT",
     bottomLeft |-> "BL", bottomRight |-> "BR", bottomTee |-> "BT",
     midLeft |-> "ML", midRight |-> "MR", midCross |-> "MC",
     horizontal |-> "HZ", vertical |-> "VT"]

BoxChars == {BOX[k] : k \in DOMAIN BOX}

Whitespace == {" ", "\t"}

MinOf(S) == CHOOSE x \in S : \A y \in S : x <= y

MaxOf(S) == CHOOSE x \in S : \A y \in S : x >= y

RECURSIVE Repeat(_, _)
Repeat(c, n) == IF n <= 0 THEN <<>> ELSE <<c>> \o Repeat(c, n - 1)

StartsWith(s, p) == Len(s) >= Len(p) /\ SubSeq(s, 1, Len(p)) = p

EndsWith(s, p) == Len(s) >= Len(p) /\ SubSeq(s, Len(s) - Len(p) + 1, Len(s)) = p

Includes(s, c) == \E k \in 1..Len(s) : s[k] = c

Trim(s) ==
    LET keep == {k \in 1..Len(s) : s[k] \notin Whitespace}
    IN  IF keep = {} THEN <<>> ELSE SubSeq(s, MinOf(keep), MaxOf(keep))

TrimStart(s) ==
    LET keep == {k \in 1..Len(s) : s[k] \notin Whitespace}
    IN  IF keep = {} THEN <<>> ELSE SubSeq(s, MinOf(keep), Len(s))

RECURSIVE Split(_, _)
Split(s, c) ==
    LET at == {k \in 1..Len(s) : s[k] = c}
    IN  IF at = {} THEN <<s>>
        ELSE <<SubSeq(s, 1, MinOf(at) - 1)>> \o Split(SubSeq(s, MinOf(at) + 1, Len(s)), c)

RECURSIVE Join(_, _)
Join(parts, sep) ==
    IF parts = <<>> THEN <<>>
    ELSE IF Len(parts) = 1 THEN parts[1]
    ELSE parts[1] \o sep \o Join(Tail(parts), sep)

Slice1(a) == SubSeq(a, 2, Len(a) - 1)

RECURSIVE RemoveChars(_, _)
RemoveChars(s, cs) ==
    IF s = <<>> THEN <<>>
    ELSE (IF s[1] \in cs THEN <<>> ELSE <<s[1]>>) \o RemoveChars(Tail(s), cs)

RECURSIVE ReplaceChar(_, _, _)
ReplaceChar(s, a, b) ==
    IF s = <<>> THEN <<>>
    ELSE <<IF s[1] = a THEN b ELSE s[1]>> \o ReplaceChar(Tail(s), a, b)

----------------------------------------------------------------------------
(* Line classification *)

IsCodeFenceLine(line) ==
    LET t == TrimStart(line)
    IN  /\ Len(t) >= 3
        /\ t[1] \in {"BQ", "~"}
        /\ t[2] = t[1]
        /\ t[3] = t[1]

isBoxDrawingBorderLine(line) ==
    LET trimmed == Trim(line)
    IN  \/ StartsWith(trimmed, <<BOX.topLeft>>)
        \/ StartsWith(trimmed, <<BOX.midLeft>>)
        \/ StartsWith(trimmed, <<BOX.bottomLeft>>)

\* as isBoxDrawingDataLine, but a data line must not hold a space
isBoxDrawingDataLineNoSpace(line) ==
    LET trimmed == Trim(line)
    IN  /\ StartsWith(trimmed, <<BOX.vertical>>)
        /\ EndsWith(trimmed, <<BOX.vertical>>)
        /\ ~Includes(trimmed, " ")

isBoxDrawingDataLine(line) ==
    LET trimmed == Trim(line)
    IN  /\ StartsWith(trimmed, <<BOX.vertical>>)
        /\ EndsWith(trimmed, <<BOX.vertical>>)
        /\ ~Includes(trimmed, "|")

sanitizeCell(cell) == Trim(RemoveChars(cell, BoxChars))

RECURSIVE CollapsePipes(_)
CollapsePipes(s) ==
    IF s = <<>> THEN <<>>
    ELSE LET rest == {k \in 2..Len(s) : s[k] \notin Whitespace}
         IN  IF s[1] = "|" /\ rest # {} /\ s[MinOf(rest)] = "|"
             THEN <<"|">> \o CollapsePipes(SubSeq(s, MinOf(rest) + 1, Len(s)))
             ELSE <<s[1]>> \o CollapsePipes(Tail(s))

normalizeTableLine(line) == Trim(CollapsePipes(ReplaceChar(line, BOX.vertical, "|")))

isTableRow(line) ==
    LET normalized == normalizeTableLine(Trim(line))
    IN  /\ StartsWith(normalized, <<"|">>)
        /\ EndsWith(normalized, <<"|">>)
        /\ Len(Split(normalized, "|")) > 2

IsSeparatorCell(cell) ==
    LET t == Trim(cell)
        a == IF StartsWith(t, <<":">>) THEN Tail(t) ELSE t
        b == IF EndsWith(a, <<":">>) THEN SubSeq(a, 1, Len(a) - 1) ELSE a
    IN  Len(b) >= 1 /\ \A k \in 1..Len(b) : b[k] = "-"

isSeparatorRow(line) ==
    LET normalized == normalizeTableLine(Trim(line))
        cells == Slice1(Split(normalized, "|"))
    IN  /\ StartsWith(normalized, <<"|">>)
        /\ EndsWith(normalized, <<"|">>)
        /\ Len(cells) > 0
        /\ \A k \in 1..Len(cells) : IsSeparatorCell(cells[k])

ValidatorRow(line) ==
    LET cells == Slice1(Split(normalizeTableLine(line), "|"))
    IN  [k \in 1..Len(cells) |-> Trim(cells[k])]

isValidTable(tableLines) ==
    /\ Len(tableLines) >= 2
    /\ Len(ValidatorRow(tableLines[1])) # 0
    /\ \A r \in 1..Len(tableLines) :
          Len(ValidatorRow(tableLines[r])) = Len(ValidatorRow(tableLines[1]))
    /\ \E r \in 1..Len(tableLines) : isSeparatorRow(tableLines[r])

----------------------------------------------------------------------------
(* Display-width calculator: getStringWidth and its regular expressions *)

\* the placeholder "\x00CODE<n>\x00" is one opaque character of the model
Placeholder(n) == "CODE" \o ToString(n)

\* as ExtractCode, but no span is protected
ExtractCodeNone(s, blocks) == [text |-> s, blocks |-> blocks]

\* /BQ(.+?)BQ/g with the replacer of step 1: the leftmost backtick that has a
\* later backtick at least one character away opens a span, the nearest such
\* backtick closes it; returns the text with placeholders and the contents
RECURSIVE ExtractCode(_, _)
ExtractCode(s, blocks) ==
    IF s = <<>> THEN [text |-> <<>>, blocks |-> blocks]
    ELSE LET closes == {e \in 3..Len(s) : s[e] = "BQ"}
         IN  IF s[1] = "BQ" /\ closes # {}
             THEN LET e == MinOf(closes)
                      r == ExtractCode(SubSeq(s, e + 1, Len(s)),
                                       Append(blocks, SubSeq(s, 2, e - 1)))
                  IN  [text |-> <<Placeholder(Len(blocks))>> \o r.text, blocks |-> r.blocks]
             ELSE LET r == ExtractCode(Tail(s), blocks)
                  IN  [text |-> <<s[1]>> \o r.text, blocks |-> r.blocks]

\* s.replace(/D(.+?)D/g, "$1") for a literal delimiter D
RECURSIVE StripWrapper(_, _)
StripWrapper(s, d) ==
    IF Len(s) < 2 * Len(d) + 1 THEN s
    ELSE LET n == Len(d)
             closes == {e \in (n + 2)..(Len(s) - n + 1) : SubSeq(s, e, e + n - 1) = d}
         IN  IF StartsWith(s, d) /\ closes # {}
             THEN LET e == MinOf(closes)
                  IN  SubSeq(s, n + 1, e - 1) \o StripWrapper(SubSeq(s, e + n, Len(s)), d)
             ELSE <<s[1]>> \o StripWrapper(Tail(s), d)

\* a match of \[([^\]]{m,})\]\(([^)]+)\) at the start of s, or the empty record set
LinkAt(s, m) ==
    LET rb == {k \in 2..Len(s) : s[k] = "]"}
    IN  IF Len(s) >= 1 /\ s[1] = "[" /\ rb # {}
        THEN LET r == MinOf(rb)
                 rp == {k \in (r + 3)..Len(s) : s[k] = ")"}
             IN  IF r - 2 >= m /\ rp # {} /\ s[r + 1] = "(" /\ s[r + 2] # ")"
                 THEN {[label |-> SubSeq(s, 2, r - 1),
                        url |-> SubSeq(s, r + 2, MinOf(rp) - 1),
                        end |-> MinOf(rp)]}
                 ELSE {}
        ELSE {}

\* s.replace(/!\[([^\]]*)\]\(([^)]+)\)/g, "$1")
RECURSIVE StripImages(_)
StripImages(s) ==
    IF s = <<>> THEN <<>>
    ELSE LET ms == IF s[1] = "!" THEN LinkAt(Tail(s), 0) ELSE {}
         IN  IF ms # {}
             THEN LET m == CHOOSE x \in ms : TRUE
                  IN  m.label \o StripImages(SubSeq(s, m.end + 2, Len(s)))
             ELSE <<s[1]>> \o StripImages(Tail(s))

\* as StripLinks, but the replacement is as long as the link it replaces
RECURSIVE StripLinksPadded(_)
StripLinksPadded(s) ==
    IF s = <<>> THEN <<>>
    ELSE LET ms == LinkAt(s, 1)
         IN  IF ms # {}
             THEN LET m == CHOOSE x \in ms : TRUE
                  IN  m.label \o <<" ", "(">> \o m.url \o <<")", " ">>
                          \o StripLinksPadded(SubSeq(s, m.end + 1, Len(s)))
             ELSE <<s[1]>> \o StripLinksPadded(Tail(s))

\* s.replace(/\[([^\]]+)\]\(([^)]+)\)/g, "$1 ($2)")
RECURSIVE StripLinks(_)
StripLinks(s) ==
    IF s = <<>> THEN <<>>
    ELSE LET ms == LinkAt(s, 1)
         IN  IF ms # {}
             THEN LET m == CHOOSE x \in ms : TRUE
                  IN  m.label \o <<" ", "(">> \o m.url \o <<")">>
                          \o StripLinks(SubSeq(s, m.end + 1, Len(s)))
             ELSE <<s[1]>> \o StripLinks(Tail(s))

\* one iteration of the while loop of step 2
StripPass(s) ==
    StripLinks(StripImages(
        StripWrapper(StripWrapper(StripWrapper(StripWrapper(s,
            <<"*", "*", "*">>), <<"*", "*">>), <<"*">>), <<"~", "~">>)))

RECURSIVE StripMarkdown(_)
StripMarkdown(s) == IF StripPass(s) = s THEN s ELSE StripMarkdown(StripPass(s))

\* step 3: every placeholder is replaced by the content recorded for it
RECURSIVE RestoreCode(_, _)
RestoreCode(s, blocks) ==
    IF s = <<>> THEN <<>>
    ELSE LET ks == {k \in 1..Len(blocks) : s[1] = Placeholder(k - 1)}
         IN  (IF ks # {} THEN blocks[CHOOSE k \in ks : TRUE] ELSE <<s[1]>>)
                 \o RestoreCode(Tail(s), blocks)

\* Bun.stringWidth: wide glyphs take two columns, every other character one
CharWidth(c) == IF c = "CJK" THEN 2 ELSE 1

RECURSIVE StringWidth(_)
StringWidth(s) == IF s = <<>> THEN 0 ELSE CharWidth(s[1]) + StringWidth(Tail(s))

getStringWidth(t) ==
    LET x == ExtractCode(t, <<>>)
    IN  StringWidth(RestoreCode(StripMarkdown(x.text), x.blocks))

calculateDisplayWidth(t, cache) ==
    IF t \in DOMAIN cache THEN cache[t] ELSE getStringWidth(t)

\* as CacheWith, but a text that is not cached yet is stored with its length
CacheWithRawLength(cache, ts) ==
    [t \in DOMAIN cache \cup ts |-> IF t \in DOMAIN cache THEN cache[t] ELSE Len(t)]

\* the cache after calculateDisplayWidth was called on every text of ts
CacheWith(cache, ts) ==
    [t \in DOMAIN cache \cup ts |-> calculateDisplayWidth(t, cache)]

----------------------------------------------------------------------------
(* Table renderer *)

getAlignment(delimiterCell) ==
    LET trimmed == Trim(delimiterCell)
        hasLeftColon == StartsWith(trimmed, <<":">>)
        hasRightColon == EndsWith(trimmed, <<":">>)
    IN  IF hasLeftColon /\ hasRightColon THEN "center"
        ELSE IF hasRightColon THEN "right"
        ELSE "left"

\* as padCell, but centring puts the odd remainder on the left
padCellRemainderLeft(t, w, align, cache) ==
    LET displayWidth == calculateDisplayWidth(t, cache)
        totalPadding == IF w - displayWidth > 0 THEN w - displayWidth ELSE 0
        rightPad == totalPadding \div 2
        leftPad == totalPadding - rightPad
    IN  IF align = "center" THEN Repeat(" ", leftPad) \o t \o Repeat(" ", rightPad)
        ELSE IF align = "right" THEN Repeat(" ", totalPadding) \o t
        ELSE t \o Repeat(" ", totalPadding)

padCell(t, w, align, cache) ==
    LET displayWidth == calculateDisplayWidth(t, cache)
        totalPadding == IF w - displayWidth > 0 THEN w - displayWidth ELSE 0
        leftPad == totalPadding \div 2
        rightPad == totalPadding - leftPad
    IN  IF align = "center" THEN Repeat(" ", leftPad) \o t \o Repeat(" ", rightPad)
        ELSE IF align = "right" THEN Repeat(" ", totalPadding) \o t
        ELSE t \o Repeat(" ", totalPadding)

buildBorderRow(colWidths, left, mid, right) ==
    LET segments == [c \in 1..Len(colWidths) |-> Repeat(BOX.horizontal, colWidths[c] + 2)]
    IN  <<left>> \o Join(segments, <<mid>>) \o <<right>>

separatorIndices(tableLines) ==
    {r \in 1..Len(tableLines) : isSeparatorRow(tableLines[r])}

\* rows of formatTable: split, trimmed and sanitized cells
TableRows(tableLines) ==
    [r \in 1..Len(tableLines) |->
        LET cells == Slice1(Split(normalizeTableLine(tableLines[r]), "|"))
        IN  [k \in 1..Len(cells) |-> sanitizeCell(Trim(cells[k]))]]

ColCount(rows) == MaxOf({Len(rows[r]) : r \in 1..Len(rows)})

\* colAlignments after the separator rows up to index r were applied in order
RECURSIVE ColAlignments(_, _, _)
ColAlignments(rows, seps, r) ==
    IF r = 0 THEN [c \in 1..ColCount(rows) |-> "left"]
    ELSE LET prev == ColAlignments(rows, seps, r - 1)
         IN  IF r \in seps
             THEN [c \in 1..ColCount(rows) |->
                      IF c <= Len(rows[r]) THEN getAlignment(rows[r][c]) ELSE prev[c]]
             ELSE prev

\* as ColWidths, but separator rows are measured like data rows
RECURSIVE ColWidthsAllRows(_, _, _, _)
ColWidthsAllRows(rows, seps, r, cache) ==
    IF r = 0 THEN [c \in 1..ColCount(rows) |-> 3]
    ELSE LET prev == ColWidthsAllRows(rows, seps, r - 1, cache)
         IN  [c \in 1..ColCount(rows) |->
                 IF c <= Len(rows[r]) /\ calculateDisplayWidth(rows[r][c], cache) > prev[c]
                 THEN calculateDisplayWidth(rows[r][c], cache)
                 ELSE prev[c]]

\* colWidths after the rows up to index r were measured in order
RECURSIVE ColWidths(_, _, _, _)
ColWidths(rows, seps, r, cache) ==
    IF r = 0 THEN [c \in 1..ColCount(rows) |-> 3]
    ELSE LET prev == ColWidths(rows, seps, r - 1, cache)
         IN  IF r \in seps THEN prev
             ELSE [c \in 1..ColCount(rows) |->
                      IF c <= Len(rows[r]) /\ calculateDisplayWidth(rows[r][c], cache) > prev[c]
                      THEN calculateDisplayWidth(rows[r][c], cache)
                      ELSE prev[c]]

\* the cell texts formatTable passes to calculateDisplayWidth
MeasuredCells(tableLines) ==
    LET rows == TableRows(tableLines)
        seps == separatorIndices(tableLines)
    IN  {rows[r][c] : <<r, c>> \in
            {p \in (1..Len(rows)) \X (1..ColCount(rows)) :
                p[1] \notin seps /\ p[2] <= Len(rows[p[1]])}}
        \cup (IF \E r \in 1..Len(rows) : r \notin seps /\ Len(rows[r]) < ColCount(rows)
              THEN {<<>>} ELSE {})

\* as RenderRows, but a mid border follows the last data row too
RECURSIVE RenderRowsBorderAfterEach(_, _, _, _, _)
RenderRowsBorderAfterEach(dataRows, k, colWidths, colAlignments, cache) ==
    IF k > Len(dataRows) THEN <<>>
    ELSE LET row == dataRows[k]
             cells == [c \in 1..Len(colWidths) |->
                          padCell(IF c <= Len(row) THEN row[c] ELSE <<>>,
                                  colWidths[c], colAlignments[c], cache)]
             dataLine == <<BOX.vertical, " ">>
                            \o Join(cells, <<" ", BOX.vertical, " ">>)
                            \o <<" ", BOX.vertical>>
         IN  <<dataLine, buildBorderRow(colWidths, BOX.midLeft, BOX.midCross, BOX.midRight)>>
                \o RenderRowsBorderAfterEach(dataRows, k + 1, colWidths, colAlignments, cache)

RECURSIVE RenderRows(_, _, _, _, _)
RenderRows(dataRows, k, colWidths, colAlignments, cache) ==
    IF k > Len(dataRows) THEN <<>>
    ELSE LET row == dataRows[k]
             cells == [c \in 1..Len(colWidths) |->
                          padCell(IF c <= Len(row) THEN row[c] ELSE <<>>,
                                  colWidths[c], colAlignments[c], cache)]
             dataLine == <<BOX.vertical, " ">>
                            \o Join(cells, <<" ", BOX.vertical, " ">>)
                            \o <<" ", BOX.vertical>>
         IN  <<dataLine>>
                \o (IF k < Len(dataRows)
                    THEN <<buildBorderRow(colWidths, BOX.midLeft, BOX.midCross, BOX.midRight)>>
                    ELSE <<>>)
                \o RenderRows(dataRows, k + 1, colWidths, colAlignments, cache)

formatTable(tableLines, cache) ==
    LET seps == separatorIndices(tableLines)
        rows == TableRows(tableLines)
        colAlignments == ColAlignments(rows, seps, Len(rows))
        colWidths == ColWidths(rows, seps, Len(rows), cache)
        dataRows == SelectSeq([r \in 1..Len(rows) |-> <<r, rows[r]>>],
                              LAMBDA p : p[1] \notin seps)
    IN  <<buildBorderRow(colWidths, BOX.topLeft, BOX.topTee, BOX.topRight)>>
            \o RenderRows([k \in 1..Len(dataRows) |-> dataRows[k][2]], 1,
                          colWidths, colAlignments, cache)
            \o <<buildBorderRow(colWidths, BOX.bottomLeft, BOX.bottomTee, BOX.bottomRight)>>

----------------------------------------------------------------------------
(* Block scanner *)

InvalidComment ==
    <<"<", "!", "-", "-", " ", "t", "a", "b", "l", "e", " ", "n", "o", "t", " ", "f", "o", "r", "m", "a", "t", "t", "e", "d", ":", " ", "i", "n", "v", "a", "l", "i", "d", " ", "s", "t", "r", "u", "c", "t", "u", "r", "e", " ", "-", "-", ">">>

FailedPrefix ==
    <<"<", "!", "-", "-", " ", "t", "a", "b", "l", "e", " ", "f", "o", "r", "m", "a", "t", "t", "i", "n", "g", " ", "f", "a", "i", "l", "e", "d", ":", " ">>

FailedSuffix ==
    <<" ", "-", "-", ">">>

\* message of the ReferenceError raised where Bun is not defined
BunMessage ==
    <<"B", "u", "n", " ", "i", "s", " ", "n", "o", "t", " ", "d", "e", "f", "i", "n", "e", "d">>

\* index of the last line of the box-drawing block whose border line is at k
RECURSIVE BoxBlockEnd(_, _)
BoxBlockEnd(ls, k) ==
    IF k < Len(ls) /\ (isBoxDrawingBorderLine(ls[k + 1]) \/ isBoxDrawingDataLine(ls[k + 1]))
    THEN BoxBlockEnd(ls, k + 1)
    ELSE k

\* index of the last line of the candidate block whose first row is at k
RECURSIVE TableBlockEnd(_, _)
TableBlockEnd(ls, k) ==
    IF k < Len(ls) /\ isTableRow(ls[k + 1]) THEN TableBlockEnd(ls, k + 1) ELSE k

\* as Branch, but the fence flag is consulted after the table patterns
BranchFenceLast(ls, k, fence) ==
    IF IsCodeFenceLine(ls[k]) THEN "fence"
    ELSE IF isBoxDrawingBorderLine(ls[k]) THEN "box"
    ELSE IF isTableRow(ls[k]) THEN "table"
    ELSE IF fence THEN "fenced"
    ELSE "plain"

\* the branch the loop body takes at line k
Branch(ls, k, fence) ==
    IF IsCodeFenceLine(ls[k]) THEN "fence"
    ELSE IF fence THEN "fenced"
    ELSE IF isBoxDrawingBorderLine(ls[k]) THEN "box"
    ELSE IF isTableRow(ls[k]) THEN "table"
    ELSE "plain"

\* whether formatTable on the block reaches Bun.stringWidth
CallsBun(tableLines, cache) == MeasuredCells(tableLines) \ DOMAIN cache # {}

\* formatMarkdownTables from line k on, as a function of the remaining lines
RECURSIVE FormatFrom(_, _, _, _)
FormatFrom(ls, k, fence, cache) ==
    IF k > Len(ls) THEN <<>>
    ELSE LET b == Branch(ls, k, fence)
         IN  CASE b = "fence" -> <<ls[k]>> \o FormatFrom(ls, k + 1, ~fence, cache)
               [] b = "box" ->
                    SubSeq(ls, k, BoxBlockEnd(ls, k))
                        \o FormatFrom(ls, BoxBlockEnd(ls, k) + 1, fence, cache)
               [] b = "table" ->
                    LET tableLines == SubSeq(ls, k, TableBlockEnd(ls, k))
                    IN  (IF isValidTable(tableLines)
                         THEN formatTable(tableLines, cache)
                         ELSE tableLines \o <<InvalidComment>>)
                        \o FormatFrom(ls, TableBlockEnd(ls, k) + 1, fence,
                                      IF isValidTable(tableLines)
                                      THEN CacheWith(cache, MeasuredCells(tableLines))
                                      ELSE cache)
               [] OTHER -> <<ls[k]>> \o FormatFrom(ls, k + 1, fence, cache)

\* the text formatMarkdownTables returns where no call raises
formatMarkdownTables(t, cache) == Join(FormatFrom(Split(t, "\n"), 1, FALSE, cache), <<"\n">>)

----------------------------------------------------------------------------
(* Inputs *)

ScanPool ==
    { <<"|", " ", "a", " ", "|", " ", "b", " ", "|">>,
      <<"|", "-", "-", "-", "|", ":", "-", ":", "|">>,
      <<"|", " ", "1", " ", "|">>,
      <<"BQ", "BQ", "BQ">>,
      <<" ", " ", "~", "~", "~", "~">>,
      <<"x">>,
      <<"TL", "HZ", "HZ", "HZ", "TR">>,
      <<"VT", " ", "a", " ", "VT">>,
      <<>> }

TablePool ==
    { <<"|", " ", "a", "b", " ", "|", " ", "c", " ", "|">>,
      <<"|", "-", "-", "-", "|", "-", "-", "-", "|">>,
      <<"|", " ", ":", "-", "-", "-", "-", ":", " ", "|", " ", "-", "-", "-", "-", ":", " ", "|">>,
      <<"|", " ", "_", "a", "b", "_", " ", "|", " ", "*", "*", "a", "b", "c", "d", "*", "*", " ", "|">>,
      <<"|", " ", "BQ", "*", "*", "b", "*", "*", "BQ", " ", "|", " ", "CJK", " ", "|">>,
      <<"|", " ", "HZ", "a", " ", "VT", " ", "b", "MC", "c", " ", "|">> }

EmptyCellPool ==
    { <<"|", " ", "a", " ", "|", " ", "b", " ", "|", " ", "c", " ", "|">>,
      <<"|", "-", "-", "-", "|", "-", "-", "-", "|", "-", "-", "-", "|">>,
      <<"|", " ", "1", " ", "|", " ", " ", "|", " ", "3", " ", "|">>,
      <<"|", " ", "1", " ", "|", " ", "2", " ", "|", " ", " ", "|">> }

RECURSIVE SeqsOfLen(_, _)
SeqsOfLen(S, n) ==
    IF n = 0 THEN {<<>>}
    ELSE {Append(s, x) : s \in SeqsOfLen(S, n - 1), x \in S}

SeqsUpTo(S, n) == UNION {SeqsOfLen(S, m) : m \in 1..n}

BlockRows ==
    { <<"|", " ", "a", " ", "|", " ", "b", " ", "|">>,
      <<"|", "-", "-", "-", "|", ":", "-", ":", "|">>,
      <<"|", " ", "1", " ", "|">> }

Dividers ==
    { <<"x">>,
      <<"BQ", "BQ", "BQ">>,
      <<"TL", "HZ", "HZ", "HZ", "TR">> }

\* two candidate blocks with one line between them
TwoBlockDocuments ==
    {(b1 \o <<d>>) \o b2 : b1 \in SeqsUpTo(BlockRows, MaxLines - 1),
                           d \in Dividers,
                           b2 \in SeqsUpTo(BlockRows, MaxLines - 1)}

\* documents of at most MaxLines lines, the lines of one pool, and the
\* two-block documents
Documents ==
    UNION {SeqsUpTo(P, MaxLines) : P \in {ScanPool, TablePool, EmptyCellPool}}
        \cup TwoBlockDocuments

----------------------------------------------------------------------------
(* The hook "experimental.text.complete" and the loop of formatMarkdownTables *)

WidthIdle ==
    /\ wpc = "idle"
    /\ wtext = <<>>
    /\ codeBlocks = <<>>
    /\ visualText = <<>>
    /\ previousText = <<>>
    /\ width = -1

Init ==
    /\ \E doc \in Documents : text = Join(doc, <<"\n">>)
    /\ pc = "hook"
    /\ lines = <<>>
    /\ result = <<>>
    /\ i = 1
    /\ insideCodeFence = FALSE
    /\ widthCache = <<>>
    /\ cacheOperationCount = 0
    /\ WidthIdle

\* the hook calls formatMarkdownTables, which splits the text
Enter ==
    /\ pc = "hook"
    /\ pc' = "scan"
    /\ lines' = Split(text, "\n")
    /\ result' = <<>>
    /\ i' = 1
    /\ insideCodeFence' = FALSE
    /\ UNCHANGED <<text, widthCache, cacheOperationCount>>
    /\ UNCHANGED widthVars

InLoop(b) == pc = "scan" /\ i <= Len(lines) /\ Branch(lines, i, insideCodeFence) = b

FenceLine ==
    /\ InLoop("fence")
    /\ insideCodeFence' = ~insideCodeFence
    /\ result' = Append(result, lines[i])
    /\ i' = i + 1
    /\ UNCHANGED <<text, pc, lines, widthCache, cacheOperationCount>>
    /\ UNCHANGED widthVars

FencedLine ==
    /\ InLoop("fenced")
    /\ result' = Append(result, lines[i])
    /\ i' = i + 1
    /\ UNCHANGED <<text, pc, lines, insideCodeFence, widthCache,
                   cacheOperationCount>>
    /\ UNCHANGED widthVars

BoxDrawingBlock ==
    /\ InLoop("box")
    /\ result' = result \o SubSeq(lines, i, BoxBlockEnd(lines, i))
    /\ i' = BoxBlockEnd(lines, i) + 1
    /\ UNCHANGED <<text, pc, lines, insideCodeFence, widthCache,
                   cacheOperationCount>>
    /\ UNCHANGED widthVars

TableLines == SubSeq(lines, i, TableBlockEnd(lines, i))

ValidTable ==
    /\ InLoop("table")
    /\ isValidTable(TableLines)
    /\ result' = result \o formatTable(TableLines, widthCache)
    /\ widthCache' = CacheWith(widthCache, MeasuredCells(TableLines))
    /\ i' = TableBlockEnd(lines, i) + 1
    /\ UNCHANGED <<text, pc, lines, insideCodeFence, cacheOperationCount>>
    /\ UNCHANGED widthVars

\* as TableRaises, but the catch stores the lines rendered so far
TableRaisesPartial ==
    /\ InLoop("table")
    /\ isValidTable(TableLines)
    /\ CallsBun(TableLines, widthCache)
    /\ text' = Join(result, <<"\n">>) \o <<"\n", "\n">> \o FailedPrefix \o BunMessage \o FailedSuffix
    /\ pc' = "failed"
    /\ UNCHANGED <<lines, result, i, insideCodeFence, widthCache,
                   cacheOperationCount>>
    /\ UNCHANGED widthVars

\* the external call Bun.stringWidth raises in getStringWidth (a ReferenceError
\* where the runtime has no global Bun); the catch of the hook appends the
\* comment to output.text
TableRaises ==
    /\ InLoop("table")
    /\ isValidTable(TableLines)
    /\ CallsBun(TableLines, widthCache)
    /\ text' = text \o <<"\n", "\n">> \o FailedPrefix \o BunMessage \o FailedSuffix
    /\ pc' = "failed"
    /\ UNCHANGED <<lines, result, i, insideCodeFence, widthCache,
                   cacheOperationCount>>
    /\ UNCHANGED widthVars

\* as InvalidTable, but only the first row of the block is kept
InvalidTableFirstRow ==
    /\ InLoop("table")
    /\ ~isValidTable(TableLines)
    /\ result' = Append(result, TableLines[1]) \o <<InvalidComment>>
    /\ i' = TableBlockEnd(lines, i) + 1
    /\ UNCHANGED <<text, pc, lines, insideCodeFence, widthCache,
                   cacheOperationCount>>
    /\ UNCHANGED widthVars

InvalidTable ==
    /\ InLoop("table")
    /\ ~isValidTable(TableLines)
    /\ result' = (result \o TableLines) \o <<InvalidComment>>
    /\ i' = TableBlockEnd(lines, i) + 1
    /\ UNCHANGED <<text, pc, lines, insideCodeFence, widthCache,
                   cacheOperationCount>>
    /\ UNCHANGED widthVars

PlainLine ==
    /\ InLoop("plain")
    /\ result' = Append(result, lines[i])
    /\ i' = i + 1
    /\ UNCHANGED <<text, pc, lines, insideCodeFence, widthCache,
                   cacheOperationCount>>
    /\ UNCHANGED widthVars

MaxOperations == 100

MaxCacheSize == 1000

\* as Return, but the cleanup resets the counter and leaves the cache as it is
ReturnKeepsEntries ==
    /\ pc = "scan"
    /\ i > Len(lines)
    /\ IF cacheOperationCount + 1 > MaxOperations \/ Cardinality(DOMAIN widthCache) > MaxCacheSize
       THEN cacheOperationCount' = 0
       ELSE cacheOperationCount' = cacheOperationCount + 1
    /\ widthCache' = widthCache
    /\ text' = Join(result, <<"\n">>)
    /\ pc' = "done"
    /\ UNCHANGED <<lines, result, i, insideCodeFence>>
    /\ UNCHANGED widthVars

\* incrementOperationCount and cleanupCache, then the return into the hook
Return ==
    /\ pc = "scan"
    /\ i > Len(lines)
    /\ IF cacheOperationCount + 1 > MaxOperations \/ Cardinality(DOMAIN widthCache) > MaxCacheSize
       THEN widthCache' = <<>> /\ cacheOperationCount' = 0
       ELSE widthCache' = widthCache /\ cacheOperationCount' = cacheOperationCount + 1
    /\ text' = Join(result, <<"\n">>)
    /\ pc' = "done"
    /\ UNCHANGED <<lines, result, i, insideCodeFence>>
    /\ UNCHANGED widthVars

Next ==
    \/ Enter
    \/ FenceLine
    \/ FencedLine
    \/ BoxDrawingBlock
    \/ ValidTable
    \/ TableRaises
    \/ InvalidTable
    \/ PlainLine
    \/ Return

Spec == Init /\ [][Next]_vars

----------------------------------------------------------------------------
(* getStringWidth step by step, on its own inputs *)

WidthAlphabet == {"a", "*", "_", "~", "BQ"}

SampleTexts ==
    { <<"_", "I", "t", "a", "l", "i", "c", "_">>,
      <<"_", "_", "B", "o", "l", "d", "_", "_">>,
      <<"*", "*", "_", "t", "r", "i", "p", "l", "e", "_", "*", "*">>,
      <<"H", "~", "2", "~", "O">>,
      <<"E", "=", "m", "c", "^", "2", "^">>,
      <<"BQ", "*", "*", "b", "o", "l", "d", "*", "*", "BQ">>,
      <<"*", "*", "b", "o", "l", "d", "*", "*">>,
      <<"*", "*", "*", "a", "*", "*", "*", " ", "~", "~", "b", "~", "~">>,
      <<"[", "a", "]", "(", "b", ")">>,
      <<"!", "[", "a", "]", "(", "b", ")">>,
      <<"!", "[", "a", "]", "(", "BQ", "*", "b", "*", "BQ", ")">>,
      <<"[", "BQ", "*", "a", "*", "BQ", "]", "(", "b", ")">>,
      <<"*", "BQ", "*", "a", "*", "BQ", " ", "CJK", "*">> }

Texts == SampleTexts \cup UNION {SeqsOfLen(WidthAlphabet, n) : n \in 0..MaxTextLen}

ScanIdle ==
    /\ text = <<>>
    /\ pc = "idle"
    /\ lines = <<>>
    /\ result = <<>>
    /\ i = 1
    /\ insideCodeFence = FALSE
    /\ widthCache = <<>>
    /\ cacheOperationCount = 0

InitWidth ==
    /\ ScanIdle
    /\ wpc = "extract"
    /\ wtext \in Texts
    /\ codeBlocks = <<>>
    /\ visualText = <<>>
    /\ previousText = <<>>
    /\ width = -1

\* step 1 and the initialisation of the loop
ExtractStep ==
    /\ wpc = "extract"
    /\ codeBlocks' = ExtractCode(wtext, <<>>).blocks
    /\ visualText' = ExtractCode(wtext, <<>>).text
    /\ previousText' = <<>>
    /\ wpc' = "strip"
    /\ UNCHANGED <<wtext, width>>
    /\ UNCHANGED scanVars

\* one iteration of while (visualText !== previousText)
StripStep ==
    /\ wpc = "strip"
    /\ visualText # previousText
    /\ previousText' = visualText
    /\ visualText' = StripPass(visualText)
    /\ UNCHANGED <<wpc, wtext, codeBlocks, width>>
    /\ UNCHANGED scanVars

\* loop exit, step 3 and the return of Bun.stringWidth(visualText)
RestoreStep ==
    /\ wpc = "strip"
    /\ visualText = previousText
    /\ visualText' = RestoreCode(visualText, codeBlocks)
    /\ width' = StringWidth(RestoreCode(visualText, codeBlocks))
    /\ wpc' = "done"
    /\ UNCHANGED <<wtext, codeBlocks, previousText>>
    /\ UNCHANGED scanVars

NextWidth ==
    \/ ExtractStep
    \/ StripStep
    \/ RestoreStep

SpecWidth == InitWidth /\ [][NextWidth]_vars

----------------------------------------------------------------------------
(* Properties *)

\* the text the hook was called with, as formatMarkdownTables split it
Input == Join(lines, <<"\n">>)

FailureComment == <<"\n", "\n">> \o FailedPrefix \o BunMessage \o FailedSuffix

\* C1 as stated: no failure leaves the hook; after a failure output.text is the
\* input followed by the comment with the message, otherwise the formatted
\* text; the text is never partially formatted and never shorter than the input
C1_NeverShorter ==
    /\ pc = "scan" => text = Input
    /\ pc = "failed" => text = Input \o FailureComment
    /\ pc = "done" => text = formatMarkdownTables(Input, <<>>)
    /\ pc \in {"done", "failed"} => Len(text) >= Len(Input)

\* C1 amended: as above, but only the text stored after a failure is never
\* shorter than the input (it is the whole input plus the comment); a formatted
\* text may be shorter
C1_FailureKeepsInput ==
    /\ pc = "scan" => text = Input
    /\ pc = "failed" =>
          /\ text = Input \o FailureComment
          /\ Len(text) > Len(Input)
          /\ SubSeq(text, 1, Len(Input)) = Join(lines, <<"\n">>)
    /\ pc = "done" => text = formatMarkdownTables(Input, <<>>)

\* a failure after part of the document was rendered
C1_Witness == pc = "failed" /\ result # <<>> /\ text # Input

LinesWithoutBlock == SubSeq(lines, 1, i - 1) \o SubSeq(lines, TableBlockEnd(lines, i) + 1, Len(lines))

\* C2: a candidate block that fails validation is emitted unchanged and in
\* order, followed by exactly one invalid-structure comment line, nothing is
\* raised, and the rest of the document is rendered as it is without the block
C2_InvalidBlockKept ==
    [][(InLoop("table") /\ ~isValidTable(TableLines)) =>
          /\ result' = (result \o TableLines) \o <<InvalidComment>>
          /\ pc' = "scan"
          /\ text' = text
          /\ FormatFrom(LinesWithoutBlock, 1, FALSE, <<>>)
                = result \o FormatFrom(lines', i', insideCodeFence', widthCache')]_vars

\* an invalid block and a rendered table in one finished document
C2_Witness ==
    /\ pc = "done"
    /\ \E k \in 2..Len(result) : result[k] = InvalidComment /\ result[k - 1] \in BlockRows
    /\ \E k \in 1..Len(result) :
          StartsWith(result[k], <<BOX.topLeft>>) /\ \A j \in 1..Len(lines) : lines[j] # result[k]

\* fence delimiter lines among the first k lines
FencesBefore(k) == Cardinality({j \in 1..k : IsCodeFenceLine(lines[j])})

\* C3: a fence delimiter line, and every line read between an opening fence
\* and its closing fence, is appended to the output unchanged, whatever it
\* looks like: no border glyph is introduced and no comment line is appended
C3_FencedVerbatim ==
    [][(pc = "scan" /\ i <= Len(lines)
            /\ (IsCodeFenceLine(lines[i]) \/ FencesBefore(i - 1) % 2 = 1)) =>
          /\ result' = Append(result, lines[i])
          /\ i' = i + 1
          /\ pc' = "scan"
          /\ text' = text]_vars

\* a finished document holding a fence with a valid-looking table in it,
\* which came out unchanged
C3_Witness ==
    /\ pc = "done"
    /\ Len(lines) >= 3
    /\ IsCodeFenceLine(lines[1])
    /\ isValidTable(SubSeq(lines, 2, 3))
    /\ result = lines

\* C4: formatting is idempotent on valid tables: the lines rendered for a
\* valid block come out unchanged when the output produced so far, or the
\* rendered table alone, is formatted again
C4_Idempotent ==
    [][(InLoop("table") /\ isValidTable(TableLines) /\ pc' = "scan") =>
          LET out == SubSeq(result', Len(result) + 1, Len(result'))
              again == FormatFrom(result', 1, FALSE, widthCache')
          IN  /\ Len(again) >= Len(out)
              /\ SubSeq(again, Len(again) - Len(out) + 1, Len(again)) = out
              /\ FormatFrom(out, 1, FALSE, widthCache') = out]_vars

\* a finished document with a rendered data row
C4_Witness ==
    /\ pc = "done"
    /\ \E k \in 1..Len(result) :
          /\ StartsWith(result[k], <<BOX.vertical>>)
          /\ \A j \in 1..Len(lines) : lines[j] # result[k]
    /\ formatMarkdownTables(text, widthCache) = text

\* a step of the loop that renders a valid block
RendersTable == InLoop("table") /\ isValidTable(TableLines) /\ pc' = "scan"

\* the column count of the block and its data rows, read from the source lines
SourceColumns == Len(ValidatorRow(TableLines[1]))

DataRowIndices ==
    SelectSeq([r \in 1..Len(TableLines) |-> r], LAMBDA r : ~isSeparatorRow(TableLines[r]))

SourceCell(r, c) == sanitizeCell(ValidatorRow(TableLines[r])[c])

\* reading a rendered table back
IsBorderRow(line, left, mid, right, c) ==
    /\ Len(line) >= 2
    /\ line[1] = left
    /\ line[Len(line)] = right
    /\ LET segments == Split(SubSeq(line, 2, Len(line) - 1), mid)
       IN  /\ Len(segments) = c
           /\ \A s \in 1..c :
                 Len(segments[s]) >= 1
                     /\ \A k \in 1..Len(segments[s]) : segments[s][k] = BOX.horizontal

\* the fields of a rendered data row, margins included
Fields(line) == Slice1(Split(line, BOX.vertical))

IsDataRow(line, c) ==
    /\ StartsWith(line, <<BOX.vertical>>)
    /\ EndsWith(line, <<BOX.vertical>>)
    /\ Len(Split(line, BOX.vertical)) = c + 2

\* the width of column c as the top border of a rendered table shows it
BorderWidth(border, c) ==
    Len(Split(SubSeq(border, 2, Len(border) - 1), BOX.topTee)[c]) - 2

\* C5: a valid block with c columns and d data rows renders as one top border,
\* the d data rows in source order with one mid border between adjacent data
\* rows and none after the last, and one bottom border; every rendered line
\* has c column segments and no separator row is rendered
C5_TableShape ==
    [][RendersTable =>
          LET out == SubSeq(result', Len(result) + 1, Len(result'))
              c == SourceColumns
              d == Len(DataRowIndices)
          IN  /\ Len(out) = (IF d = 0 THEN 2 ELSE 2 * d + 1)
              /\ IsBorderRow(out[1], BOX.topLeft, BOX.topTee, BOX.topRight, c)
              /\ IsBorderRow(out[Len(out)], BOX.bottomLeft, BOX.bottomTee, BOX.bottomRight, c)
              /\ \A k \in 1..d :
                    /\ IsDataRow(out[2 * k], c)
                    /\ \A col \in 1..c :
                          Trim(Fields(out[2 * k])[col]) = SourceCell(DataRowIndices[k], col)
              /\ \A k \in 1..(d - 1) :
                    IsBorderRow(out[2 * k + 1], BOX.midLeft, BOX.midCross, BOX.midRight, c)]_vars

\* a rendered table of two columns and two data rows, finished
C5_Witness ==
    /\ pc = "done"
    /\ Len(result) = 5
    /\ IsBorderRow(result[3], BOX.midLeft, BOX.midCross, BOX.midRight, 2)
    /\ \E r \in 1..Len(lines) : isSeparatorRow(lines[r])

\* the widest visual width among the data cells of a column, floored at 3
ExpectedWidth(col) ==
    MaxOf({3} \cup {getStringWidth(SourceCell(DataRowIndices[k], col)) :
                        k \in 1..Len(DataRowIndices)})

\* C6: the width of every column, in every border of the rendered table, is
\* the largest visual width of the column's cells in non-separator rows,
\* floored at 3; separator rows do not contribute
C6_ColumnWidth ==
    [][RendersTable =>
          LET out == SubSeq(result', Len(result) + 1, Len(result'))
          IN  \A col \in 1..SourceColumns :
                 /\ BorderWidth(out[1], col) = ExpectedWidth(col)
                 /\ BorderWidth(out[1], col) >= 3
                 /\ \A k \in 1..Len(DataRowIndices) :
                       BorderWidth(out[1], col)
                           >= getStringWidth(SourceCell(DataRowIndices[k], col))
                 /\ \A n \in 1..Len(out) :
                       n % 2 = 1 =>
                          Len(Split(SubSeq(out[n], 2, Len(out[n]) - 1),
                                    IF n = 1 THEN BOX.topTee
                                    ELSE IF n = Len(out) THEN BOX.bottomTee
                                    ELSE BOX.midCross)[col]) - 2 = ExpectedWidth(col)]_vars

\* a rendered table whose separator row is wider than every data cell and
\* whose first column is wider than the floor
C6_Witness ==
    /\ pc = "done"
    /\ Len(lines) >= 2
    /\ isValidTable(lines)
    /\ \E r \in 1..Len(lines) : isSeparatorRow(lines[r]) /\ Len(lines[r]) > Len(result[1])
    /\ \E r \in 1..Len(lines) : ~isSeparatorRow(lines[r])
    /\ Len(result) >= 3
    /\ Len(Split(result[1], BOX.topTee)[1]) - 3 > 3

\* the alignment the last separator row of the block declares for a column
DeclaredAlignment(col) ==
    LET seps == {r \in 1..Len(TableLines) : isSeparatorRow(TableLines[r])}
        cell == ValidatorRow(TableLines[MaxOf(seps)])[col]
    IN  IF cell[1] = ":" /\ cell[Len(cell)] = ":" THEN "center"
        ELSE IF cell[Len(cell)] = ":" THEN "right"
        ELSE "left"

\* C10: a rendered data cell is the sanitized source cell, emphasis markers
\* kept, with p = column width - visual width spaces: all right of the text
\* (left), all left of it (right), or floor(p/2) left and the rest right
\* (center), by the colons of the block's last separator row
C10_Padding ==
    [][RendersTable =>
          LET out == SubSeq(result', Len(result) + 1, Len(result'))
          IN  \A k \in 1..Len(DataRowIndices) : \A col \in 1..SourceColumns :
                 LET field == Fields(out[2 * k])[col]
                     cell == SourceCell(DataRowIndices[k], col)
                     p == BorderWidth(out[1], col) - getStringWidth(cell)
                     a == DeclaredAlignment(col)
                     l == IF a = "left" THEN 0 ELSE IF a = "right" THEN p ELSE p \div 2
                 IN  /\ p >= 0
                     /\ field = <<" ">> \o Repeat(" ", l) \o cell \o Repeat(" ", p - l) \o <<" ">>]_vars

\* a rendered table with two separator rows of different alignments and a
\* centred cell with an odd padding
C10_Witness ==
    /\ pc = "done"
    /\ Len(lines) = 3
    /\ isValidTable(lines)
    /\ isSeparatorRow(lines[2]) /\ isSeparatorRow(lines[3])
    /\ getAlignment(ValidatorRow(lines[2])[1]) = "left"
    /\ getAlignment(ValidatorRow(lines[3])[1]) = "center"
    /\ Len(result) = 3
    /\ \E n \in 0..2 :
          Fields(result[2])[1] = ((<<" ">> \o Repeat(" ", n)) \o ValidatorRow(lines[1])[1])
                                      \o Repeat(" ", n + 1) \o <<" ">>

\* the pipe-delimited cells of a source row as written, empty ones included
WrittenCells(line) == Slice1(Split(ReplaceChar(Trim(line), BOX.vertical, "|"), "|"))

\* C9 as stated: a block with a separator row whose lines all have the same
\* number of pipe-delimited cells, empty ones included, is rendered as a
\* bordered table with that number of columns and is not flagged invalid
C9_EmptyCellsKept ==
    [][(/\ InLoop("table")
        /\ Len(TableLines) >= 2
        /\ \E r \in 1..Len(TableLines) : isSeparatorRow(TableLines[r])
        /\ \A r \in 1..Len(TableLines) :
              Len(WrittenCells(TableLines[r])) = Len(WrittenCells(TableLines[1]))
        /\ pc' = "scan") =>
          /\ Len(result') >= Len(result) + 2
          /\ IsBorderRow(result'[Len(result) + 1], BOX.topLeft, BOX.topTee, BOX.topRight,
                         Len(WrittenCells(TableLines[1])))
          /\ result'[Len(result')] # InvalidComment]_vars

\* C7 as stated: markers the display conceals do not count, underscore
\* emphasis and sub/superscript markers included: _Italic_ has width 6,
\* __Bold__ 4, **_triple_** 6, H~2~O 3 and E=mc^2^ 5
C7_ConcealedWidths ==
    wpc = "done" =>
        /\ wtext = <<"_", "I", "t", "a", "l", "i", "c", "_">> => width = 6
        /\ wtext = <<"_", "_", "B", "o", "l", "d", "_", "_">> => width = 4
        /\ wtext = <<"*", "*", "_", "t", "r", "i", "p", "l", "e", "_", "*", "*">> => width = 6
        /\ wtext = <<"H", "~", "2", "~", "O">> => width = 3
        /\ wtext = <<"E", "=", "m", "c", "^", "2", "^">> => width = 5

\* a text that is one code span: a backquote, a content without backquote,
\* a backquote
IsCodeSpan(t) ==
    /\ Len(t) >= 3
    /\ t[1] = "BQ"
    /\ t[Len(t)] = "BQ"
    /\ \A k \in 2..(Len(t) - 1) : t[k] # "BQ"

Occurrences(s, c) == Cardinality({k \in 1..Len(s) : s[k] = c})

RECURSIVE TotalWidth(_)
TotalWidth(blocks) ==
    IF blocks = <<>> THEN 0 ELSE StringWidth(blocks[1]) + TotalWidth(Tail(blocks))

\* C8 as stated: the width of the cell that is the code span **bold** in
\* backquotes is 11
C8_WidthEleven ==
    (wpc = "done" /\ wtext = <<"BQ", "*", "*", "b", "o", "l", "d", "*", "*", "BQ">>) => width = 11

\* C8 amended: the width of a cell that is one code span is the width of the
\* span's content, every character counted and the two backquotes not: 8 for
\* **bold** in backquotes, not 11 and not the stripped 4; the emphasis passes
\* never touch the content of a backquote pair (outside images, whose URL is
\* dropped whole), while emphasis around a span is stripped
C8_CodeSpanLiteral ==
    /\ (wpc = "done" /\ wtext = <<"BQ", "*", "*", "b", "o", "l", "d", "*", "*", "BQ">>) => width = 8
    /\ (wpc = "done" /\ IsCodeSpan(wtext)) =>
          /\ codeBlocks = <<SubSeq(wtext, 2, Len(wtext) - 1)>>
          /\ width = StringWidth(SubSeq(wtext, 2, Len(wtext) - 1))
    /\ (wpc = "done" /\ wtext = <<"*", "BQ", "*", "a", "*", "BQ", " ", "CJK", "*">>) => width = 6
    /\ (wpc = "done" /\ wtext = <<"[", "BQ", "*", "a", "*", "BQ", "]", "(", "b", ")">>) => width = 7
    /\ (wpc = "strip" /\ ~Includes(wtext, "!")) =>
          \A k \in 1..Len(codeBlocks) : Occurrences(visualText, Placeholder(k - 1)) = 1
    /\ (wpc = "done" /\ ~Includes(wtext, "!")) => width >= TotalWidth(codeBlocks)

\* the width of the code span **bold** was returned
C8_Witness == wpc = "done" /\ wtext = <<"BQ", "*", "*", "b", "o", "l", "d", "*", "*", "BQ">> /\ width = 8

----------------------------------------------------------------------------
(* Repeated calls of the hook in one process: the cache outlives a call *)

CacheDocuments ==
    { << <<"x">> >>,
      << <<"|", " ", "1", " ", "|">> >>,
      << <<"|", " ", "*", "*", "a", "*", "*", " ", "|">>, <<"|", "-", "-", "-", "|">> >>,
      << <<"|", " ", "a", " ", "|", " ", "*", "*", "a", "*", "*", " ", "|">>, <<"|", ":", "-", ":", "|", "-", "-", ":", "|">> >> }

Letters ==
    <<"a", "b", "c", "d", "e", "f", "g", "h", "i", "j", "k", "l", "m", "n", "o", "p", "q", "r", "s", "t", "u", "v", "w", "x", "y", "z", "0", "1", "2", "3", "4", "5">>

\* the cells of the table whose cells all start with the k-th letter
LetterCells(k) ==
    { <<Letters[k], Letters[j]>> : j \in 1..Len(Letters) }

\* the r-th of the four rows of eight cells of the k-th table
LetterRow(k, r) ==
    [n \in 1..25 |->
        IF n % 3 = 1 THEN "|"
        ELSE IF n % 3 = 2 THEN Letters[k] ELSE Letters[8 * (r - 1) + (n \div 3)]]

\* a header row, the separator row and three data rows: Len(Letters) cells
LetterTable(k) ==
    << LetterRow(k, 1), <<"|", "-", "|", "-", "|", "-", "|", "-", "|", "-", "|", "-", "|", "-", "|", "-", "|">>,
       LetterRow(k, 2), LetterRow(k, 3), LetterRow(k, 4) >>

\* a conversation of tables that measures more than MaxCacheSize distinct cells
Conversation ==
    [k \in 1..Len(Letters) |-> LetterTable(k)]

SmallCells ==
    UNION { MeasuredCells(doc) : doc \in CacheDocuments }

InitCache ==
    /\ text = <<>>
    /\ pc = "ready"
    /\ lines = <<>>
    /\ result = <<>>
    /\ i = 1
    /\ insideCodeFence = FALSE
    /\ widthCache = <<>>
    /\ cacheOperationCount = 0
    /\ WidthIdle

\* the host calls the hook with the next text: any of the CacheDocuments, or
\* the next table of the Conversation, which starts in a fresh process
Call ==
    /\ pc \in {"ready", "done", "failed"}
    /\ \/ /\ DOMAIN widthCache \subseteq SmallCells
          /\ \E doc \in CacheDocuments : text' = Join(doc, <<"\n">>)
       \/ \E k \in 1..Len(Conversation) :
             /\ cacheOperationCount = k - 1
             /\ DOMAIN widthCache = UNION { LetterCells(j) : j \in 1..(k - 1) }
             /\ text' = Join(Conversation[k], <<"\n">>)
    /\ pc' = "hook"
    /\ lines' = <<>>
    /\ result' = <<>>
    /\ i' = 1
    /\ insideCodeFence' = FALSE
    /\ UNCHANGED <<widthCache, cacheOperationCount>>
    /\ UNCHANGED widthVars

NextCache ==
    \/ Call
    \/ Enter
    \/ ValidTable
    \/ TableRaises
    \/ InvalidTable
    \/ PlainLine
    \/ Return

SpecCache == InitCache /\ [][NextCache]_vars

----------------------------------------------------------------------------
(* Properties of the width cache over repeated calls *)

\* C11: after any sequence of calls and resets, every entry of widthCache maps
\* its text to the width a fresh getStringWidth computes for it, and a call
\* that returns has produced what it produces with an empty cache
C11_CacheConsistent ==
    /\ \A t \in DOMAIN widthCache : widthCache[t] = getStringWidth(t)
    /\ pc = "done" => text = formatMarkdownTables(Input, <<>>)

\* a call has rendered a table whose cells were all served from the cache, which
\* also holds a text of another call and a width that differs from the length
C11_Witness ==
    /\ pc = "done"
    /\ isValidTable(lines)
    /\ MeasuredCells(lines) # {}
    /\ MeasuredCells(lines) \subseteq DOMAIN widthCache
    /\ MeasuredCells(lines) # DOMAIN widthCache
    /\ \E t \in MeasuredCells(lines) : widthCache[t] # Len(t)
    /\ cacheOperationCount >= 2

C12_WitnessSize ==
    /\ pc = "done"
    /\ lines = Conversation[Len(Conversation)]
    /\ widthCache = <<>>
    /\ cacheOperationCount = 0

\* a state inside a call in which the cache holds more than MaxCacheSize entries
C12_OverInsideCall ==
    /\ pc = "scan"
    /\ Cardinality(DOMAIN widthCache) > MaxCacheSize

----------------------------------------------------------------------------
(* Termination: one call of the hook, or one call of getStringWidth, run
   under fairness of the steps of the program *)

InitTerm == Init \/ InitWidth

NextTerm == Next \/ NextWidth

\* a call is between its entry and its return
Running == pc \in {"hook", "scan"} \/ wpc \in {"extract", "strip"}

\* the single thread of the program keeps executing: weak fairness of NextTerm,
\* which is enabled exactly in the Running states
Fairness == []<>~Running \/ []<><<NextTerm>>_vars

SpecTerm == InitTerm /\ [][NextTerm]_vars /\ Fairness

\* the call has returned into the hook, or getStringWidth has returned
Finished == pc \in {"done", "failed"} \/ wpc = "done"

\* an iteration of the scanner loop moves the line index forward
ScanAdvances == (pc = "scan" /\ pc' = "scan") => (i' > i /\ i' <= Len(lines) + 1)

\* a pass of the stripping loop that changes the text makes it shorter
StripShortens ==
    (wpc = "strip" /\ wpc' = "strip" /\ visualText' # visualText)
        => Len(visualText') < Len(visualText)

\* C13: every call of formatMarkdownTables terminates: each iteration of the
\* scanner loop advances the line index by at least one, every pass of the
\* stripping loop that changes the text strictly shortens it, and the call of
\* either function eventually returns
C13_Terminates ==
    /\ [][ScanAdvances /\ StripShortens]_vars
    /\ <>Finished

\* a call has returned after the loop went over several lines and rendered a table
C13_Witness ==
    /\ pc = "done"
    /\ Len(lines) >= 2
    /\ i = Len(lines) + 1
    /\ text # Input

\* the stripping loop is between two passes that both change the text
C13_WitnessStrip ==
    /\ wpc = "strip"
    /\ Len(visualText) < Len(previousText)
    /\ StripPass(visualText) # visualText

====
